---- MODULE Spec2Model ----
(***************************************************************************)
(* Model of the array routines of cnn.ipynb: convolution2d,                *)
(* convolution2d_with_padding and max_pooling2d.                           *)
(*                                                                         *)
(* A matrix is a sequence of rows, each row a sequence of integers.  The   *)
(* notebook indexes from 0, the model from 1: cell (i, j) of the notebook  *)
(* is M[i+1][j+1] here.  The notebook stores results in float64 arrays;    *)
(* every value that occurs is an integer far below 2^53, so the model      *)
(* keeps them as integers.                                                 *)
(*                                                                         *)
(* The functions are pure.  A behaviour is one call: Init draws the image, *)
(* an action draws the other arguments, applies one function and records   *)
(* the arguments and the result.  Images and kernels are square, the       *)
(* padding is >= 0, the pooling window and the stride are >= 1.  The       *)
(* functions have no error handling: a call whose shapes do not fit either *)
(* ends in a numpy ValueError (a negative output size, a window that does  *)
(* not broadcast against the kernel), recorded as op = "ValueError" with   *)
(* no output assigned, or returns what numpy's broadcasting and slicing    *)
(* make of it (an empty output, a cut window multiplied by broadcasting).  *)
(***************************************************************************)
EXTENDS Integers, Sequences, FiniteSets

VARIABLES image, kernel, padding, pool_size, stride, output, op

vars == <<image, kernel, padding, pool_size, stride, output, op>>

(***************************************************************************)
(* Bounds of the model.                                                    *)
(***************************************************************************)
\* Largest side of an enumerated image.
MaxN == 2
\* Largest side of an enumerated kernel.
MaxK == 3
\* Largest padding width.
MaxPad == 1
\* Largest pooling window side.
MaxPool == 3
\* Largest stride.
MaxStride == 3

\* Pixel values of the enumerated images.
PixelVals == {-1, 2}
\* Weights of the vectors the enumerated kernels are built from.
KernelVals == {-1, 1}

(***************************************************************************)
(* The arrays the notebook defines or shows.                               *)
(***************************************************************************)
input_image ==
  << <<1, 2, 3, 4, 5>>,
     <<6, 7, 8, 9, 10>>,
     <<11, 12, 13, 14, 15>>,
     <<16, 17, 18, 19, 20>>,
     <<21, 22, 23, 24, 25>> >>

filter_kernel ==
  << <<1, 0, -1>>,
     <<1, 0, -1>>,
     <<1, 0, -1>> >>

\* Input image of the "Edge Detection" example.
sobel_image ==
  << <<10, 10, 20, 30, 40>>,
     <<20, 30, 40, 50, 60>>,
     <<30, 40, 50, 60, 70>>,
     <<40, 50, 60, 70, 80>>,
     <<50, 60, 70, 80, 90>> >>

\* Sobel horizontal edge detector of the "Edge Detection" example.
sobel_filter ==
  << <<-1, -2, -1>>,
     <<0, 0, 0>>,
     <<1, 2, 1>> >>

\* "Feature Map (Before Pooling)" of the "Max Pooling" example.
example_feature_map ==
  << <<110, 150, 190>>,
     <<150, 190, 230>>,
     <<190, 230, 270>> >>

(***************************************************************************)
(* numpy primitives the three functions use.                               *)
(***************************************************************************)
Min2(a, b) == IF a <= b THEN a ELSE b

Max2(a, b) == IF a >= b THEN a ELSE b

\* M.shape[0]
Shape0(M) == Len(M)

\* M.shape[1]
Shape1(M) == IF Len(M) = 0 THEN 0 ELSE Len(M[1])

\* M[r0:r1, c0:c1] with 0-based, half-open bounds, clipped to the shape
\* as basic slicing does (0 <= r0, 0 <= c0).
Slice(M, r0, r1, c0, c1) ==
  LET rows == Max2(Min2(r1, Shape0(M)) - r0, 0)
      cols == Max2(Min2(c1, Shape1(M)) - c0, 0)
  IN  [r \in 1..rows |-> [c \in 1..cols |-> M[r0 + r][c0 + c]]]

\* Two lengths of one axis broadcast together: equal, or one of them is 1.
Compatible(a, b) == a = b \/ a = 1 \/ b = 1

\* A * B is defined: the shapes broadcast on both axes.
Broadcastable(A, B) ==
  /\ Compatible(Shape0(A), Shape0(B))
  /\ Compatible(Shape1(A), Shape1(B))

\* Length of an axis of A * B.
BroadcastDim(a, b) == IF a = 1 THEN b ELSE a

\* Cell (r, c) of M stretched to a broadcast shape: an axis of length 1 is
\* repeated.
Stretched(M, r, c) ==
  M[IF Shape0(M) = 1 THEN 1 ELSE r][IF Shape1(M) = 1 THEN 1 ELSE c]

\* M rotated by 180 degrees.
Rot180(M) ==
  [r \in 1..Shape0(M) |-> [c \in 1..Shape1(M) |->
    M[Shape0(M) + 1 - r][Shape1(M) + 1 - c]]]

\* M transposed.
Transposed(M) ==
  [r \in 1..Shape1(M) |-> [c \in 1..Shape0(M) |-> M[c][r]]]

\* Variant of Mul: the second array rotated by 180 degrees (a flipped kernel).
MulFlipped(A, B) ==
  [r \in 1..BroadcastDim(Shape0(A), Shape0(B)) |->
    [c \in 1..BroadcastDim(Shape1(A), Shape1(B)) |->
      Stretched(A, r, c) * Stretched(Rot180(B), r, c)]]

\* Variant of Mul: the second array transposed.
MulTransposed(A, B) ==
  [r \in 1..BroadcastDim(Shape0(A), Shape0(B)) |->
    [c \in 1..BroadcastDim(Shape1(A), Shape1(B)) |->
      Stretched(A, r, c) * Stretched(Transposed(B), r, c)]]

\* A * B: the elementwise product of two arrays whose shapes broadcast.
Mul(A, B) ==
  [r \in 1..BroadcastDim(Shape0(A), Shape0(B)) |->
    [c \in 1..BroadcastDim(Shape1(A), Shape1(B)) |->
      Stretched(A, r, c) * Stretched(B, r, c)]]

\* M.ravel(): the rows of M one after the other.
RECURSIVE Ravel(_)
Ravel(M) == IF Len(M) = 0 THEN <<>> ELSE Head(M) \o Ravel(Tail(M))

RECURSIVE SumSeq(_)
SumSeq(s) == IF Len(s) = 0 THEN 0 ELSE Head(s) + SumSeq(Tail(s))

\* np.sum(M)
NpSum(M) == SumSeq(Ravel(M))

RECURSIVE MaxSeq(_)
MaxSeq(s) == IF Len(s) = 1 THEN Head(s) ELSE Max2(Head(s), MaxSeq(Tail(s)))

\* Variant of NpMax: a running maximum that starts from 0.
NpMaxFromZero(M) == Max2(0, MaxSeq(Ravel(M)))

\* np.max(M), M not empty
NpMax(M) == MaxSeq(Ravel(M))

\* A row of n zeros.
ZeroRow(n) == [c \in 1..n |-> 0]

\* n rows of w zeros.
RECURSIVE ZeroRows(_, _)
ZeroRows(n, w) == IF n <= 0 THEN <<>> ELSE <<ZeroRow(w)>> \o ZeroRows(n - 1, w)

RECURSIVE PadRows(_, _)
PadRows(M, w) ==
  IF Len(M) = 0 THEN <<>>
  ELSE <<ZeroRow(w) \o Head(M) \o ZeroRow(w)>> \o PadRows(Tail(M), w)

\* Variant of NpPad: mode='edge', the border pixels repeated.
NpPadEdge(M, w) ==
  [r \in 1..(Shape0(M) + 2 * w) |->
    [c \in 1..(Shape1(M) + 2 * w) |->
      M[Max2(1, Min2(Shape0(M), r - w))][Max2(1, Min2(Shape1(M), c - w))]]]

\* np.pad(M, pad_width=w, mode='constant', constant_values=0)
NpPad(M, w) ==
  ZeroRows(w, Shape1(M) + 2 * w) \o PadRows(M, w) \o ZeroRows(w, Shape1(M) + 2 * w)

(***************************************************************************)
(* The three functions of the notebook.                                    *)
(***************************************************************************)
\* What a call that ends in an exception yields instead of an array.
ValueError == "ValueError"

\* output_size of convolution2d: image.shape[0] - kernel_size + 1
conv_output_size(n, kernel_size) == n - kernel_size + 1

\* convolution2d raises: np.zeros refuses a negative output_size.  With
\* output_size >= 1 every window has the shape of the kernel.
convolution2d_raises(img, ker) ==
  conv_output_size(Shape0(img), Shape0(ker)) < 0

convolution2d(img, ker) ==
  LET kernel_size == Shape0(ker)
      output_size == conv_output_size(Shape0(img), kernel_size)
  IN  IF convolution2d_raises(img, ker) THEN ValueError
      ELSE [i \in 1..output_size |->
             [j \in 1..output_size |->
               NpSum(Mul(Slice(img, i - 1, i - 1 + kernel_size,
                                    j - 1, j - 1 + kernel_size), ker))]]

\* convolution2d_with_padding raises: some window, cut at the border of the
\* padded image, does not broadcast against the kernel.
convolution2d_with_padding_raises(img, ker, pad) ==
  LET kernel_size == Shape0(ker)
      padded_image == NpPad(img, pad)
      output_size == Shape0(img)
  IN  \E i \in 1..output_size, j \in 1..output_size :
        ~Broadcastable(Slice(padded_image, i - 1, i - 1 + kernel_size,
                                           j - 1, j - 1 + kernel_size), ker)

convolution2d_with_padding(img, ker, pad) ==
  LET kernel_size == Shape0(ker)
      padded_image == NpPad(img, pad)
      output_size == Shape0(img)
  IN  IF convolution2d_with_padding_raises(img, ker, pad) THEN ValueError
      ELSE [i \in 1..output_size |->
             [j \in 1..output_size |->
               NpSum(Mul(Slice(padded_image, i - 1, i - 1 + kernel_size,
                                             j - 1, j - 1 + kernel_size), ker))]]

\* Variant of pool_output_size: the last window is not counted.
pool_output_size_short(n, p, s) == (n - p) \div s

\* output_size of max_pooling2d: (image.shape[0] - pool_size) // stride + 1
pool_output_size(n, p, s) == ((n - p) \div s) + 1

\* max_pooling2d raises (p >= 1, s >= 1): np.zeros refuses a negative
\* output_size.  With output_size >= 1 no window is empty.
max_pooling2d_raises(img, p, s) ==
  pool_output_size(Shape0(img), p, s) < 0

max_pooling2d(img, p, s) ==
  LET output_size == pool_output_size(Shape0(img), p, s)
  IN  IF max_pooling2d_raises(img, p, s) THEN ValueError
      ELSE [i \in 1..output_size |->
             [j \in 1..output_size |->
               NpMax(Slice(img, (i - 1) * s, (i - 1) * s + p,
                                (j - 1) * s, (j - 1) * s + p))]]

(***************************************************************************)
(* Arguments of the calls.                                                 *)
(***************************************************************************)
SquareMatrices(n, Vals) == [1..n -> [1..n -> Vals]]

Images ==
  UNION {SquareMatrices(n, PixelVals) : n \in 1..MaxN}
    \cup {input_image, sobel_image, example_feature_map}

\* The kernel u^T v of a column of weights u and a row of weights v; both
\* kernels of the notebook have this form.
Outer(u, v) == [m \in 1..Len(u) |-> [n \in 1..Len(v) |-> u[m] * v[n]]]

SeparableKernels(k, Vals) ==
  {Outer(u, v) : u \in [1..k -> Vals], v \in [1..k -> Vals]}

Kernels ==
  UNION {SeparableKernels(k, KernelVals) : k \in 1..MaxK}
    \cup {filter_kernel, sobel_filter}

\* Value of an argument the latest call does not take.
NoKernel == <<>>

(***************************************************************************)
(* State machine: the image under study, and the call made on it.          *)
(***************************************************************************)
Init ==
  /\ image \in Images
  /\ kernel = NoKernel
  /\ padding = 0
  /\ pool_size = 0
  /\ stride = 0
  /\ output = <<>>
  /\ op = "none"

\* feature_map = convolution2d(image, kernel)
Convolution2d ==
  \E ker \in Kernels :
    /\ op = "none"
    /\ kernel' = ker
    /\ padding' = 0
    /\ pool_size' = 0
    /\ stride' = 0
    /\ IF convolution2d_raises(image, ker)
       THEN op' = ValueError /\ UNCHANGED output
       ELSE op' = "convolution2d" /\ output' = convolution2d(image, ker)
    /\ UNCHANGED image

\* feature_map_padded = convolution2d_with_padding(image, kernel, padding)
Convolution2dWithPadding ==
  \E ker \in Kernels, pad \in 0..MaxPad :
    /\ op = "none"
    /\ kernel' = ker
    /\ padding' = pad
    /\ pool_size' = 0
    /\ stride' = 0
    /\ IF convolution2d_with_padding_raises(image, ker, pad)
       THEN op' = ValueError /\ UNCHANGED output
       ELSE /\ op' = "convolution2d_with_padding"
            /\ output' = convolution2d_with_padding(image, ker, pad)
    /\ UNCHANGED image

\* pooled_output = max_pooling2d(image, pool_size, stride)
MaxPooling2d ==
  \E p \in 1..MaxPool, s \in 1..MaxStride :
    /\ op = "none"
    /\ kernel' = NoKernel
    /\ padding' = 0
    /\ pool_size' = p
    /\ stride' = s
    /\ IF max_pooling2d_raises(image, p, s)
       THEN op' = ValueError /\ UNCHANGED output
       ELSE op' = "max_pooling2d" /\ output' = max_pooling2d(image, p, s)
    /\ UNCHANGED image

Next == Convolution2d \/ Convolution2dWithPadding \/ MaxPooling2d

Spec == Init /\ [][Next]_vars

(***************************************************************************)
(* Operators the properties are stated with.  They are written from the    *)
(* formulas of the claims, not from the code.                              *)
(***************************************************************************)
\* M is a side x side matrix.
IsSquare(M, side) ==
  /\ Len(M) = side
  /\ \A r \in 1..Len(M) : Len(M[r]) = side

\* The side x side matrix whose cells all hold v.
Constant(side, v) == [r \in 1..side |-> [c \in 1..side |-> v]]

\* Sum of img[i+m][j+n] * ker[m][n] over the first t pairs (m, n) of
\* 0..k-1 x 0..k-1 in row order; i, j, m, n count from 0.
RECURSIVE WeightedSum(_, _, _, _, _)
WeightedSum(img, ker, i, j, t) ==
  IF t = 0 THEN 0
  ELSE LET k == Len(ker)
           m == (t - 1) \div k
           n == (t - 1) % k
       IN  img[i + m + 1][j + n + 1] * ker[m + 1][n + 1]
             + WeightedSum(img, ker, i, j, t - 1)

\* v is the maximum of img[i*s .. i*s+p-1][j*s .. j*s+p-1]; i, j count from 0.
IsWindowMax(v, img, i, j, p, s) ==
  LET rows == (i * s + 1)..(i * s + p)
      cols == (j * s + 1)..(j * s + p)
  IN  /\ \E r \in rows, c \in cols : img[r][c] = v
      /\ \A r \in rows, c \in cols : img[r][c] <= v

\* img surrounded by w rows and columns of zeros on each side.
ZeroSurround(img, w) ==
  LET n == Len(img)
  IN  [r \in 1..(n + 2 * w) |->
        [c \in 1..(n + 2 * w) |->
          IF r > w /\ r <= n + w /\ c > w /\ c <= n + w
          THEN img[r - w][c - w] ELSE 0]]

(***************************************************************************)
(* C1: convolution2d on the notebook's 5x5 image (1..25 row by row) and    *)
(* the vertical-edge kernel returns a 3x3 output whose 9 cells are all -6. *)
(***************************************************************************)
C1_AllMinusSix ==
  (op = "convolution2d" /\ image = input_image /\ kernel = filter_kernel)
    => /\ IsSquare(output, 3)
       /\ \A i \in 1..3, j \in 1..3 : output[i][j] = -6

C1_Witness ==
  /\ op = "convolution2d"
  /\ image = input_image
  /\ kernel = filter_kernel
  /\ Len(output) = 3

(***************************************************************************)
(* C2: convolution2d_with_padding with padding 1 on the same image and     *)
(* kernel returns the 5x5 matrix printed by the notebook.                  *)
(***************************************************************************)
C2_PaddedFeatureMap ==
  (/\ op = "convolution2d_with_padding"
   /\ image = input_image
   /\ kernel = filter_kernel
   /\ padding = 1)
    => output = << <<-9, -4, -4, -4, 13>>,
                   <<-21, -6, -6, -6, 27>>,
                   <<-36, -6, -6, -6, 42>>,
                   <<-51, -6, -6, -6, 57>>,
                   <<-39, -4, -4, -4, 43>> >>

C2_Witness ==
  /\ op = "convolution2d_with_padding"
  /\ image = input_image
  /\ kernel = filter_kernel
  /\ padding = 1
  /\ Len(output) = 5

(***************************************************************************)
(* C3: max_pooling2d with pool_size 2 and stride 2 on the notebook's 5x5   *)
(* image returns [[7,9],[17,19]]: the fifth row and column are in no       *)
(* window.                                                                 *)
(***************************************************************************)
C3_PooledOutput ==
  (/\ op = "max_pooling2d"
   /\ image = input_image
   /\ pool_size = 2
   /\ stride = 2)
    => output = << <<7, 9>>, <<17, 19>> >>

C3_Witness ==
  /\ op = "max_pooling2d"
  /\ image = input_image
  /\ pool_size = 2
  /\ stride = 2
  /\ Len(output) = 2

(***************************************************************************)
(* C4: for an image of side n and a kernel of side k, 1 <= k <= n,         *)
(* convolution2d returns an (n-k+1) x (n-k+1) output whose entry (i, j) is *)
(* the sum over m, n' in 0..k-1 of image[i+m][j+n'] * kernel[m][n']: the   *)
(* kernel is applied unflipped, with stride 1.                             *)
(***************************************************************************)
C4_ConvolutionFormula ==
  (op = "convolution2d" /\ Len(kernel) <= Len(image)) =>
    LET n == Len(image)
        k == Len(kernel)
    IN  /\ IsSquare(output, n - k + 1)
        /\ \A i \in 0..(n - k), j \in 0..(n - k) :
             output[i + 1][j + 1] = WeightedSum(image, kernel, i, j, k * k)

\* A 2x2 kernel that is neither symmetric nor its own rotation, on a larger
\* image.
C4_Witness ==
  /\ op = "convolution2d"
  /\ Len(kernel) = 2
  /\ Len(image) > 2
  /\ kernel[1][2] # kernel[2][1]
  /\ kernel[1][1] # kernel[2][2]
  /\ Len(output) = Len(image) - 1

(***************************************************************************)
(* C5: for an image of side n, a window p and a stride s, 1 <= p <= n,     *)
(* s >= 1, max_pooling2d returns a square output of side                   *)
(* floor((n-p)/s)+1 whose entry (i, j) is the maximum of the window        *)
(* image[i*s .. i*s+p-1][j*s .. j*s+p-1].                                  *)
(***************************************************************************)
C5_MaxPoolingFormula ==
  (op = "max_pooling2d" /\ pool_size <= Len(image)) =>
    LET n == Len(image)
        side == ((n - pool_size) \div stride) + 1
    IN  /\ IsSquare(output, side)
        /\ \A i \in 0..(side - 1), j \in 0..(side - 1) :
             IsWindowMax(output[i + 1][j + 1], image, i, j, pool_size, stride)

\* A window of negative pixels only: the maximum is negative.
C5_Witness ==
  /\ op = "max_pooling2d"
  /\ pool_size = 2
  /\ Len(image) = 2
  /\ output = << <<-1>> >>

(***************************************************************************)
(* C6 as stated: sliding the Sobel horizontal-edge filter over the 5x5     *)
(* image of the "Edge Detection" example yields the feature map            *)
(* [[110,150,190],[150,190,230],[190,230,270]].                            *)
(***************************************************************************)
C6_Original ==
  (op = "convolution2d" /\ image = sobel_image /\ kernel = sobel_filter)
    => output = example_feature_map

(***************************************************************************)
(* C6 amended: that convolution yields                                     *)
(* [[110,120,120],[80,80,80],[80,80,80]]; only the top-left cell, 110, is  *)
(* the one the example works out.                                          *)
(***************************************************************************)
C6_SobelFeatureMap ==
  (op = "convolution2d" /\ image = sobel_image /\ kernel = sobel_filter)
    => output = << <<110, 120, 120>>, <<80, 80, 80>>, <<80, 80, 80>> >>

C6_Witness ==
  /\ op = "convolution2d"
  /\ image = sobel_image
  /\ kernel = sobel_filter
  /\ Len(output) = 3
  /\ output[1][1] = 110

(***************************************************************************)
(* C7 as stated: max_pooling2d with pool_size 2 and stride 2 on the 3x3    *)
(* feature map [[110,150,190],[150,190,230],[190,230,270]] yields          *)
(* [[190,230],[230,270]].                                                  *)
(***************************************************************************)
C7_Original ==
  (/\ op = "max_pooling2d"
   /\ image = example_feature_map
   /\ pool_size = 2
   /\ stride = 2)
    => output = << <<190, 230>>, <<230, 270>> >>

(***************************************************************************)
(* C7 amended: with pool_size 2 and stride 2 the result is the 1x1 matrix  *)
(* [[190]]; [[190,230],[230,270]] is the result with pool_size 2 and       *)
(* stride 1.                                                               *)
(***************************************************************************)
C7_ExamplePooling ==
  (op = "max_pooling2d" /\ image = example_feature_map /\ pool_size = 2)
    => /\ stride = 2 => output = << <<190>> >>
       /\ stride = 1 => output = << <<190, 230>>, <<230, 270>> >>

C7_Witness ==
  /\ op = "max_pooling2d"
  /\ image = example_feature_map
  /\ pool_size = 2
  /\ stride = 2
  /\ Len(output) = 1

(***************************************************************************)
(* C8 as stated: for 1 <= p <= n and s >= 1 the side of the output of      *)
(* max_pooling2d is strictly smaller than n.                               *)
(***************************************************************************)
C8_Original ==
  (op = "max_pooling2d" /\ pool_size <= Len(image))
    => Len(output) < Len(image)

(***************************************************************************)
(* C8 amended: for 1 <= p <= n and s >= 1 the side of the output of        *)
(* max_pooling2d is at least 1 and at most n, and it is strictly smaller   *)
(* than n exactly when p >= 2, or s >= 2 and n >= 2.                       *)
(***************************************************************************)
C8_PoolingNeverGrows ==
  (op = "max_pooling2d" /\ pool_size <= Len(image)) =>
    /\ Len(output) >= 1
    /\ Len(output) <= Len(image)
    /\ Len(output) < Len(image)
         <=> (pool_size >= 2 \/ (stride >= 2 /\ Len(image) >= 2))

\* A 1x1 window with stride 2: the side shrinks although the window does not
\* reduce anything.
C8_Witness ==
  /\ op = "max_pooling2d"
  /\ pool_size = 1
  /\ stride = 2
  /\ Len(image) >= 2
  /\ Len(output) < Len(image)

(***************************************************************************)
(* C9: for an image of side n, a padding p >= 0 and a kernel of side       *)
(* 2p+1, convolution2d_with_padding returns the n x n output of            *)
(* convolution2d on the image surrounded by p rows and columns of zeros;   *)
(* for p = 1 the interior cells (i, j), 1 <= i, j <= n-2, equal cells      *)
(* (i-1, j-1) of convolution2d(image, kernel).                             *)
(***************************************************************************)
C9_PaddingIsZeroSurround ==
  (op = "convolution2d_with_padding" /\ Len(kernel) = 2 * padding + 1) =>
    LET n == Len(image)
    IN  /\ IsSquare(output, n)
        /\ output = convolution2d(ZeroSurround(image, padding), kernel)
        /\ (padding = 1 /\ n >= 3) =>
             LET inner == convolution2d(image, kernel)
             IN  \A i \in 1..(n - 2), j \in 1..(n - 2) :
                   output[i + 1][j + 1] = inner[i][j]

\* A 3x3 kernel, padding 1, an image with interior cells and a border cell
\* that the zeros around the image decide.
C9_Witness ==
  /\ op = "convolution2d_with_padding"
  /\ padding = 1
  /\ Len(kernel) = 3
  /\ Len(image) >= 3
  /\ output[1][1] # 0
  /\ output[2][2] # 0

====
